---- MODULE Spec2Model ----
(***************************************************************************)
(* Task manager (src/main.py): a SQLite table of tasks (TaskDatabase), one *)
(* TaskItem per visible row, and the TaskManagerApp controller whose       *)
(* handlers mutate the store and then rebuild the visible list.            *)
(*                                                                         *)
(* Text is modelled as a sequence of one-character strings, so that        *)
(* str.strip() and strftime() are computed and not assumed.                *)
(***************************************************************************)
EXTENDS Integers, Sequences, FiniteSets, TLC

VARIABLES
    tasks,          \* rows of table tasks, in rowid order
    seq,            \* sqlite_sequence entry of table tasks (AUTOINCREMENT)
    selected_date,  \* TaskManagerApp.selected_date
    current_filter, \* TaskManagerApp.current_filter
    task_input,     \* TaskManagerApp.task_input.value
    tasks_column,   \* TaskManagerApp.tasks_column.controls
    open_conns,     \* connections opened by connect() and not closed yet
    deleted,        \* history: identifiers delete_task has removed
    last            \* history: the last handler that ran, the identifier it
                    \* touched and (toggle) the stored flag it found

vars == <<tasks, seq, selected_date, current_filter, task_input,
          tasks_column, open_conns, deleted, last>>

ui == <<selected_date, current_filter, task_input, tasks_column>>

(***************************************************************************)
(* Bounds of the model.                                                    *)
(***************************************************************************)
\* rows the store is ever asked to insert
MaxTasks == 2
\* connections that may be waiting for their finalizer at one time
MaxUnclosed == 1

(***************************************************************************)
(* Inputs.                                                                 *)
(***************************************************************************)
Whitespace == {" ", "\t", "\n"}

\* what the user may have typed into task_input when pressing the add button
TextInputs ==
    { <<>>,
      <<" ", "\t">>,
      <<"a", " ", "b">>,
      <<"\t", "a", " ", "b", "\n">> }

\* titles handed to TaskDatabase.add_task when it is driven directly
Titles == { <<"a", " ", "b">> }

\* the options of priority_dropdown the user picks here: the initial one and
\* one other ("Low" is stored and listed the same way)
Priorities == {"Medium", "High"}

\* the tabs of filter_tabs, by index
Filters == <<"ALL", "COMPLETED", "PENDING">>

\* calendar dates <<year, month, day>> the date picker and the clock can give
CalendarDates == { <<2024, 1, 1>>, <<2024, 11, 2>> }

(***************************************************************************)
(* Conversions.                                                            *)
(***************************************************************************)
DigitChar(n) == <<"0", "1", "2", "3", "4", "5", "6", "7", "8", "9">>[n + 1]

\* %Y / %m / %d : n in decimal, zero-padded to w digits
ZeroPad(n, w) == [i \in 1..w |-> DigitChar((n \div (10 ^ (w - i))) % 10)]

\* date.isoformat()
isoformat(d) ==
    ZeroPad(d[1], 4) \o <<"-">> \o ZeroPad(d[2], 2) \o <<"-">> \o ZeroPad(d[3], 2)

\* datetime.strftime("%Y-%m-%d")
strftime(d) ==
    ZeroPad(d[1], 4) \o <<"-">> \o ZeroPad(d[2], 2) \o <<"-">> \o ZeroPad(d[3], 2)

RECURSIVE lstrip(_)
lstrip(s) ==
    IF s = <<>> \/ s[1] \notin Whitespace THEN s ELSE lstrip(Tail(s))

RECURSIVE rstrip(_)
rstrip(s) ==
    IF s = <<>> \/ s[Len(s)] \notin Whitespace
    THEN s
    ELSE rstrip(SubSeq(s, 1, Len(s) - 1))

strip_none(s) == s

strip_left_only(s) == lstrip(s)

\* str.strip()
strip(s) == rstrip(lstrip(s))

\* int(is_completed) of a bool
int(b) == IF b THEN 1 ELSE 0

\* bool(is_completed) of a stored integer
bool(n) == n # 0

(***************************************************************************)
(* TaskDatabase: each operation as a function of the table.                *)
(***************************************************************************)
RowIds(rows) == { rows[i].id : i \in 1..Len(rows) }

MaxRowId(rows) ==
    IF rows = <<>> THEN 0
    ELSE CHOOSE m \in RowIds(rows) : \A n \in RowIds(rows) : n <= m

NextRowId_rowid(rows, s) == MaxRowId(rows) + 1

\* id INTEGER PRIMARY KEY AUTOINCREMENT: one more than the largest rowid the
\* table has ever held, which sqlite_sequence records
NextRowId(rows, s) ==
    (IF s >= MaxRowId(rows) THEN s ELSE MaxRowId(rows)) + 1

\* INSERT INTO tasks (title, priority, task_date) VALUES (?, ?, ?)
db_add_task(rows, s, title, priority, task_date) ==
    Append(rows, [id |-> NextRowId(rows, s),
                  title |-> title,
                  priority |-> priority,
                  is_completed |-> 0,
                  task_date |-> task_date])

get_tasks_no_pending(rows, task_date, filter_type) ==
    LET Match(r) ==
            /\ r.task_date = task_date
            /\ (filter_type = "COMPLETED" => r.is_completed = 1)
        Project(r) == [id |-> r.id, title |-> r.title,
                       priority |-> r.priority, is_completed |-> r.is_completed]
        hit == SelectSeq(rows, Match)
    IN  [i \in 1..Len(hit) |-> Project(hit[i])]

get_tasks_any_date(rows, task_date, filter_type) ==
    LET Match(r) ==
            /\ (filter_type = "COMPLETED" => r.is_completed = 1)
            /\ (filter_type = "PENDING" => r.is_completed = 0)
        Project(r) == [id |-> r.id, title |-> r.title,
                       priority |-> r.priority, is_completed |-> r.is_completed]
        hit == SelectSeq(rows, Match)
    IN  [i \in 1..Len(hit) |-> Project(hit[i])]

\* SELECT id, title, priority, is_completed FROM tasks WHERE task_date = ?
\*   [AND is_completed = 1 | AND is_completed = 0]
get_tasks(rows, task_date, filter_type) ==
    LET Match(r) ==
            /\ r.task_date = task_date
            /\ (filter_type = "COMPLETED" => r.is_completed = 1)
            /\ (filter_type = "PENDING" => r.is_completed = 0)
        Project(r) == [id |-> r.id, title |-> r.title,
                       priority |-> r.priority, is_completed |-> r.is_completed]
        hit == SelectSeq(rows, Match)
    IN  [i \in 1..Len(hit) |-> Project(hit[i])]

update_task_set_only(rows, task_id, is_completed) ==
    [i \in 1..Len(rows) |->
        IF rows[i].id = task_id
        THEN [rows[i] EXCEPT !.is_completed = 1]
        ELSE rows[i]]

update_task_no_where(rows, task_id, is_completed) ==
    [i \in 1..Len(rows) |->
        [rows[i] EXCEPT !.is_completed = int(is_completed)]]

update_task_wrong_column(rows, task_id, is_completed) ==
    [i \in 1..Len(rows) |->
        IF rows[i].id = task_id
        THEN [rows[i] EXCEPT !.priority = "Medium",
                             !.is_completed = int(is_completed)]
        ELSE rows[i]]

\* UPDATE tasks SET is_completed = ? WHERE id = ?
update_task(rows, task_id, is_completed) ==
    [i \in 1..Len(rows) |->
        IF rows[i].id = task_id
        THEN [rows[i] EXCEPT !.is_completed = int(is_completed)]
        ELSE rows[i]]

\* DELETE FROM tasks WHERE id = ?
delete_task(rows, task_id) ==
    LET Keep(r) == r.id # task_id IN SelectSeq(rows, Keep)

(***************************************************************************)
(* connect(): every TaskDatabase call opens a connection inside a          *)
(* with-block.  The block commits on exit; nothing in the source calls     *)
(* close(), so a connection is closed only by its finalizer, which may run *)
(* when the call returns or later.  Of the n connections a handler opened, *)
(* k are still open when it returns.                                       *)
(***************************************************************************)
connect(n) ==
    \E k \in 0..n :
        /\ open_conns + k <= MaxUnclosed
        /\ open_conns' = open_conns + k

(***************************************************************************)
(* TaskItem and the controller.                                            *)
(***************************************************************************)
\* TaskItem.__init__: the row's identifier and its checkbox value
TaskItem(r) == [task_id |-> r.id, value |-> bool(r.is_completed)]

load_tasks_no_clear(rows, date, filter) ==
    LET got == get_tasks(rows, date, filter)
    IN  tasks_column \o [i \in 1..Len(got) |-> TaskItem(got[i])]

\* load_tasks: clear the column, then one TaskItem per row of get_tasks
load_tasks(rows, date, filter) ==
    LET got == get_tasks(rows, date, filter)
    IN  [i \in 1..Len(got) |-> TaskItem(got[i])]

Event(op, id, orig) == [op |-> op, id |-> id, orig |-> orig]

\* TaskManagerApp.__init__ on a new tasks.db: create_table, then load_tasks
\* of the empty table
Init ==
    /\ tasks = <<>>
    /\ seq = 0
    /\ \E today \in CalendarDates : selected_date = isoformat(today)
    /\ current_filter = "ALL"
    /\ task_input = <<>>
    /\ tasks_column = <<>>
    /\ open_conns \in { k \in 0..2 : k <= MaxUnclosed }
    /\ deleted = {}
    /\ last = Event("start", 0, 0)

\* TaskManagerApp.__init__ on the store an earlier run left behind
Start ==
    /\ \E today \in CalendarDates :
          /\ selected_date' = isoformat(today)
          /\ tasks_column' = load_tasks(tasks, isoformat(today), "ALL")
    /\ current_filter' = "ALL"
    /\ task_input' = <<>>
    /\ open_conns' \in { k \in 0..2 : k <= MaxUnclosed }
    /\ last' = Event("start", 0, 0)
    /\ UNCHANGED <<tasks, seq, deleted>>

\* TaskManagerApp.add_task with text in the input field and priority chosen
add_task(text, priority) ==
    LET title == strip(text) IN
    IF title = <<>>
    THEN /\ task_input' = text
         /\ last' = Event("reject", 0, 0)
         /\ UNCHANGED <<tasks, seq, selected_date, current_filter,
                        tasks_column, open_conns, deleted>>
    ELSE /\ seq < MaxTasks
         /\ tasks' = db_add_task(tasks, seq, title, priority, selected_date)
         /\ seq' = NextRowId(tasks, seq)
         /\ task_input' = <<>>
         /\ tasks_column' = load_tasks(tasks', selected_date, current_filter)
         /\ connect(2)
         /\ last' = Event("add", NextRowId(tasks, seq), 0)
         /\ UNCHANGED <<selected_date, current_filter, deleted>>

\* TaskManagerApp.change_date with the date the picker holds
change_date(d) ==
    /\ selected_date' = strftime(d)
    /\ tasks_column' = load_tasks(tasks, selected_date', current_filter)
    /\ connect(1)
    /\ last' = Event("date", 0, 0)
    /\ UNCHANGED <<tasks, seq, current_filter, task_input, deleted>>

\* TaskManagerApp.change_filter with the selected tab index + 1
change_filter(index) ==
    /\ current_filter' = Filters[index]
    /\ tasks_column' = load_tasks(tasks, selected_date, current_filter')
    /\ connect(1)
    /\ last' = Event("filter", 0, 0)
    /\ UNCHANGED <<tasks, seq, selected_date, task_input, deleted>>

\* TaskItem.toggle of the i-th visible row: the checkbox has flipped
toggle(i) ==
    LET item == tasks_column[i]
        value == ~item.value
        found == { r \in {tasks[j] : j \in 1..Len(tasks)} : r.id = item.task_id }
        orig == IF found = {} THEN 0 ELSE (CHOOSE r \in found : TRUE).is_completed
    IN  /\ tasks' = update_task(tasks, item.task_id, value)
        /\ tasks_column' = load_tasks(tasks', selected_date, current_filter)
        /\ connect(2)
        /\ last' = IF last.op = "toggle" /\ last.id = item.task_id
                   THEN Event("toggle2", item.task_id, last.orig)
                   ELSE Event("toggle", item.task_id, orig)
        /\ UNCHANGED <<seq, selected_date, current_filter, task_input, deleted>>

\* TaskItem.delete of the i-th visible row
delete(i) ==
    LET item == tasks_column[i]
    IN  /\ tasks' = delete_task(tasks, item.task_id)
        /\ tasks_column' = load_tasks(tasks', selected_date, current_filter)
        /\ connect(2)
        /\ deleted' = deleted \cup {item.task_id}
        /\ last' = Event("delete", item.task_id, 0)
        /\ UNCHANGED <<seq, selected_date, current_filter, task_input>>

\* the finalizer of a connection nothing refers to any more
Finalize ==
    /\ open_conns > 0
    /\ open_conns' = open_conns - 1
    /\ UNCHANGED <<tasks, seq, ui, deleted, last>>

Next ==
    \/ Start
    \/ \E text \in TextInputs, p \in Priorities : add_task(text, p)
    \/ \E d \in CalendarDates : change_date(d)
    \/ \E index \in 1..3 : change_filter(index)
    \/ \E i \in 1..Len(tasks_column) : toggle(i)
    \/ \E i \in 1..Len(tasks_column) : delete(i)
    \/ Finalize

Spec == Init /\ [][Next]_vars

(***************************************************************************)
(* TaskDatabase driven directly, with any identifier: the controller only  *)
(* ever passes identifiers of visible rows.                                *)
(***************************************************************************)
TaskIds == 1..(MaxTasks + 1)

call_add_task(title, priority, d) ==
    /\ seq < MaxTasks
    /\ tasks' = db_add_task(tasks, seq, title, priority, isoformat(d))
    /\ seq' = NextRowId(tasks, seq)
    /\ connect(1)
    /\ last' = Event("db_add", NextRowId(tasks, seq), 0)
    /\ UNCHANGED <<ui, deleted>>

call_update_task(task_id, is_completed) ==
    /\ tasks' = update_task(tasks, task_id, is_completed)
    /\ connect(1)
    /\ last' = Event("db_update", task_id, 0)
    /\ UNCHANGED <<seq, ui, deleted>>

call_delete_task(task_id) ==
    /\ tasks' = delete_task(tasks, task_id)
    /\ connect(1)
    /\ deleted' = deleted \cup ({task_id} \cap RowIds(tasks))
    /\ last' = Event("db_delete", task_id, 0)
    /\ UNCHANGED <<seq, ui>>

NextDb ==
    \/ \E t \in Titles, p \in Priorities, d \in CalendarDates :
          call_add_task(t, p, d)
    \/ \E id \in TaskIds, b \in BOOLEAN : call_update_task(id, b)
    \/ \E id \in TaskIds : call_delete_task(id)
    \/ Finalize

SpecDb == Init /\ [][NextDb]_vars

(***************************************************************************)
(* Properties.                                                             *)
(***************************************************************************)
Range(q) == { q[i] : i \in 1..Len(q) }

Ids(q) == { q[i].id : i \in 1..Len(q) }

\* the stored row with this identifier (identifiers are a primary key)
Stored(rows, id) == CHOOSE r \in Range(rows) : r.id = id

AllDates == { isoformat(d) : d \in CalendarDates }

AllFilters == Range(Filters)

AllWhitespace(text) == \A k \in 1..Len(text) : text[k] \in Whitespace

\* t is text without its leading and trailing whitespace
IsTrimOf(t, text) ==
    \E i \in 1..(Len(text) + 1), j \in 0..Len(text) :
        /\ t = SubSeq(text, i, j)
        /\ \A k \in 1..(i - 1) : text[k] \in Whitespace
        /\ \A k \in (j + 1)..Len(text) : text[k] \in Whitespace
        /\ t # <<>> => (t[1] \notin Whitespace /\ t[Len(t)] \notin Whitespace)

\* C1: when the trimmed input text is not empty, after add_task the list of
\* the selected date under filter ALL holds exactly one row that was not
\* listed before, with the trimmed text as title, the selected priority and
\* completion 0, and every row listed before is still listed unchanged.
C1_AddInsertsOneRow ==
    [][\A text \in TextInputs, p \in Priorities :
          (~AllWhitespace(text) /\ add_task(text, p)) =>
             LET before == get_tasks(tasks, selected_date, "ALL")
                 after == get_tasks(tasks', selected_date, "ALL")
                 new == Range(after) \ Range(before)
             IN  /\ Cardinality(new) = 1
                 /\ Len(after) = Len(before) + 1
                 /\ \A r \in new :
                       /\ IsTrimOf(r.title, text)
                       /\ r.priority = p
                       /\ r.is_completed = 0
                       /\ r.id \notin Ids(tasks)
                 /\ Range(before) \subseteq Range(after)]_vars

C1_Witness ==
    /\ last.op = "add"
    /\ Len(get_tasks(tasks, selected_date, "ALL")) >= 2
    /\ \E r \in Range(tasks) : r.is_completed = 1

\* C2: for every date, COMPLETED lists only rows of that date with
\* completion 1, PENDING only rows of that date with completion 0, ALL is
\* the disjoint union of the two, |ALL| = |COMPLETED| + |PENDING|, and every
\* stored completion value is 0 or 1.
C2_FilterPartition ==
    /\ \A r \in Range(tasks) : r.is_completed \in {0, 1}
    /\ \A D \in AllDates :
          LET all == get_tasks(tasks, D, "ALL")
              completed == get_tasks(tasks, D, "COMPLETED")
              pending == get_tasks(tasks, D, "PENDING")
          IN  /\ \A r \in Range(completed) :
                    /\ r.id \in Ids(tasks)
                    /\ Stored(tasks, r.id).task_date = D
                    /\ Stored(tasks, r.id).is_completed = 1
                    /\ r.is_completed = 1
              /\ \A r \in Range(pending) :
                    /\ r.id \in Ids(tasks)
                    /\ Stored(tasks, r.id).task_date = D
                    /\ Stored(tasks, r.id).is_completed = 0
                    /\ r.is_completed = 0
              /\ Range(all) = Range(completed) \cup Range(pending)
              /\ Range(completed) \cap Range(pending) = {}
              /\ Len(all) = Len(completed) + Len(pending)

C2_Witness ==
    \E D \in AllDates :
        /\ get_tasks(tasks, D, "COMPLETED") # <<>>
        /\ get_tasks(tasks, D, "PENDING") # <<>>

\* C3: an identifier delete_task has removed is never stored or listed
\* again, for any date and filter, whatever actions follow.
C3_DeletePermanent ==
    \A id \in deleted :
        /\ id \notin Ids(tasks)
        /\ \A D \in AllDates, f \in AllFilters :
              id \notin Ids(get_tasks(tasks, D, f))

C3_Witness ==
    /\ deleted # {}
    /\ last.op = "add"
    /\ \E id \in deleted : id > MaxRowId(SubSeq(tasks, 1, Len(tasks) - 1))

\* C4: under filter ALL, a toggle changes no stored row but the toggled one,
\* and of that row only the completion flag; a second toggle of the same
\* task right after the first stores the flag the first toggle found.
C4_ToggleTwice ==
    [][\A i \in 1..Len(tasks_column) :
          (current_filter = "ALL" /\ toggle(i)) =>
             LET id == tasks_column[i].task_id
             IN  /\ Len(tasks') = Len(tasks)
                 /\ \A j \in 1..Len(tasks) :
                       IF tasks[j].id = id
                       THEN \E v \in {0, 1} :
                               tasks'[j] = [tasks[j] EXCEPT !.is_completed = v]
                       ELSE tasks'[j] = tasks[j]
                 /\ (last.op = "toggle" /\ last.id = id) =>
                       /\ id \in Ids(tasks')
                       /\ Stored(tasks', id).is_completed = last.orig
                       /\ Stored(tasks, id).is_completed # last.orig]_vars

C4_Witness ==
    /\ last.op = "toggle2"
    /\ current_filter = "ALL"
    /\ Len(tasks) >= 2
    /\ Stored(tasks, last.id).is_completed = 1

\* C5: after every step that changes the store (it starts empty), a list for
\* date D2 holds only rows stored under D2; add_task stores its row under
\* the selected date and leaves the list of every other date, under every
\* filter, unchanged.
C5_DatesIsolated ==
    [][/\ tasks' # tasks =>
             \A D2 \in AllDates, f \in AllFilters :
                 \A r \in Range(get_tasks(tasks', D2, f)) :
                     /\ r.id \in Ids(tasks')
                     /\ Stored(tasks', r.id).task_date = D2
       /\ \A text \in TextInputs, p \in Priorities :
             add_task(text, p) =>
                /\ \A r \in Range(tasks') \ Range(tasks) :
                       r.task_date = selected_date
                /\ \A D2 \in AllDates \ {selected_date}, f \in AllFilters :
                       get_tasks(tasks', D2, f) = get_tasks(tasks, D2, f)]_vars

C5_Witness ==
    /\ last.op = "add"
    /\ \E r1, r2 \in Range(tasks) : r1.task_date # r2.task_date

\* C6: when the input text is empty or whitespace only, add_task leaves the
\* store, the selected date, the filter, the visible list and the
\* connections unchanged.
C6_EmptyTitleNoOp ==
    [][\A text \in TextInputs, p \in Priorities :
          (AllWhitespace(text) /\ add_task(text, p)) =>
             /\ UNCHANGED <<tasks, seq, selected_date, current_filter,
                            tasks_column, open_conns, deleted>>
             /\ last'.op = "reject"]_vars

C6_Witness ==
    /\ last.op = "reject"
    /\ task_input # <<>>
    /\ tasks # <<>>

\* C7: the visible list is get_tasks(selected date, current filter) of the
\* current store: the same identifiers in the same order, each checkbox equal
\* to the stored flag; no visible row names an absent identifier, and a row
\* toggled under COMPLETED or PENDING is not visible afterwards.
C7_ListMirrorsStore ==
    LET got == get_tasks(tasks, selected_date, current_filter)
    IN  /\ Len(tasks_column) = Len(got)
        /\ \A i \in 1..Len(tasks_column) :
              /\ i <= Len(got)
              /\ tasks_column[i].task_id = got[i].id
              /\ tasks_column[i].task_id \in Ids(tasks)
              /\ tasks_column[i].value =
                    (Stored(tasks, tasks_column[i].task_id).is_completed = 1)
        /\ (last.op \in {"toggle", "toggle2"} /\ current_filter # "ALL") =>
              \A i \in 1..Len(tasks_column) :
                  tasks_column[i].task_id # last.id

C7_Witness ==
    /\ last.op = "toggle"
    /\ current_filter = "COMPLETED"
    /\ tasks_column # <<>>
    /\ last.id \in Ids(tasks)

\* C8: update_task and delete_task with an identifier the store does not
\* hold leave the store unchanged; with one it holds, update_task sets that
\* row's flag and delete_task removes that row, and every other row stays.
C8_AbsentIdNoOp ==
    [][/\ \A id \in TaskIds, b \in BOOLEAN :
             call_update_task(id, b) =>
                IF id \notin Ids(tasks)
                THEN tasks' = tasks
                ELSE /\ Len(tasks') = Len(tasks)
                     /\ \A j \in 1..Len(tasks) :
                           tasks'[j] =
                              IF tasks[j].id = id
                              THEN [tasks[j] EXCEPT
                                       !.is_completed = IF b THEN 1 ELSE 0]
                              ELSE tasks[j]
       /\ \A id \in TaskIds :
             call_delete_task(id) =>
                IF id \notin Ids(tasks)
                THEN tasks' = tasks
                ELSE /\ Len(tasks') = Len(tasks) - 1
                     /\ Range(tasks') = Range(tasks) \ {Stored(tasks, id)}
                     /\ \A j, k \in 1..Len(tasks') :
                           j < k => tasks'[j].id < tasks'[k].id]_vars

C8_Witness ==
    /\ last.op = "db_update"
    /\ last.id \notin Ids(tasks)
    /\ last.id <= seq
    /\ tasks # <<>>

\* C9: no action changes the title, the priority or the date stored for an
\* identifier that stays in the store, and change_date changes no row.
C9_RowsNeverReassigned ==
    [][/\ \A r \in Range(tasks), q \in Range(tasks') :
             r.id = q.id =>
                /\ q.title = r.title
                /\ q.priority = r.priority
                /\ q.task_date = r.task_date
       /\ \A d \in CalendarDates :
             change_date(d) => (tasks' = tasks /\ seq' = seq)]_vars

C9_Witness ==
    /\ last.op = "date"
    /\ \E r \in Range(tasks) : r.is_completed = 1 /\ r.priority # "Medium"
    /\ \E r \in Range(tasks) : r.task_date # selected_date

\* C10: no connection stays open between two user actions.
C10_NoOpenConnection == open_conns = 0

====
